---------------------------- MODULE Spec2Model ----------------------------
(***************************************************************************)
(* A model of src/containers/uuid.cc (RethinkDB): the 16-byte uuid_t       *)
(* value, the per-thread counter behind generate_uuid, and the canonical   *)
(* 36-character string encoding with its three decoders.                   *)
(*                                                                         *)
(* Bytes are integers 0..255, characters are their ASCII codes, and a      *)
(* uuid_t is a sequence of kStaticSize bytes (data_[i] is id[i + 1]).      *)
(*                                                                         *)
(* Two specifications share the module:                                    *)
(*   Spec     the string codec (uuid_to_str, str_to_uuid x2, is_uuid)      *)
(*   GenSpec  generate_uuid running in several threads                     *)
(***************************************************************************)
EXTENDS Integers, Sequences, FiniteSets, TLC

VARIABLES
    \* ---- string codec (Spec) ----
    id,        \* a uuid_t held by the caller, the argument of uuid_to_str
    str,       \* the std::string the decoders are given
    fromEnc,   \* history: str is uuid_to_str(id), possibly edited since
    edits,     \* number of edits made to str so far
    out,       \* the caller's uuid_t passed as `uuid_t *uuid` to the bool decoder
    outBefore, \* history: the value of out when the last bool decode started
    res2,      \* outcome of str_to_uuid(str, &out) on the current str
    res1,      \* outcome of the throwing str_to_uuid(str) on the current str
    parsed,    \* the caller's variable assigned from the throwing decoder
    resIs,     \* outcome of is_uuid(str) on the current str
    enc,       \* outcome of uuid_to_str(out) after the last bool decode
    \* ---- generation (GenSpec) ----
    next_uuid_initialized,  \* per thread: static __thread bool
    next_uuid,              \* per thread: static __thread uint8_t[16]
    pc,                     \* per thread: position inside generate_uuid
    result,                 \* per thread: the local `uuid_t result`
    sha,                    \* the values SHA-1 has shown so far (input -> digest)
    aborted,                \* a guarantee() failed: the process is gone
    calls,                  \* number of generate_uuid calls started
    reads,                  \* history, per thread: reads of /dev/urandom
    seeded,                 \* history, per thread: the 16 bytes the read delivered
    digested,               \* history, per thread: the values handed to SHA-1
    returned                \* history, per thread: the identifiers returned

codecVars == <<id, str, fromEnc, edits, out, outBefore, res2, res1, parsed,
               resIs, enc>>
genVars == <<next_uuid_initialized, next_uuid, pc, result, sha, aborted,
             calls, reads, seeded, digested, returned>>
vars == <<codecVars, genVars>>

-----------------------------------------------------------------------------
(* The value type *)

kStaticSize == 16
kStringSize == 2 * kStaticSize + 4

\* "UNSET_UUID_____" and its terminating NUL: 16 bytes.
magic_unset_uuid ==
    <<85, 78, 83, 69, 84, 95, 85, 85, 73, 68, 95, 95, 95, 95, 95, 0>>

\* uuid_t::uuid_t()
uuid_t == magic_unset_uuid

is_unset(u) == u = magic_unset_uuid

is_nil(u) == \A i \in 1 .. kStaticSize : u[i] = 0

nil_uuid == [i \in 1 .. kStaticSize |-> 0]

-----------------------------------------------------------------------------
(* Encoding *)

\* const char *buf = "0123456789abcdef"
HexBuf == <<48, 49, 50, 51, 52, 53, 54, 55, 56, 57, 97, 98, 99, 100, 101, 102>>

\* Mutations of push_hex: the nibbles in the wrong order; an upper-case table.
push_hex_swapped(s, byte) ==
    Append(Append(s, HexBuf[(byte % 16) + 1]), HexBuf[(byte \div 16) + 1])

push_hex_upper(s, byte) ==
    LET up(c) == IF c >= 97 THEN c - 32 ELSE c
    IN  Append(Append(s, up(HexBuf[(byte \div 16) + 1])), up(HexBuf[(byte % 16) + 1]))

push_hex(s, byte) ==
    Append(Append(s, HexBuf[(byte \div 16) + 1]), HexBuf[(byte % 16) + 1])

\* for (; i < hi; ++i) push_hex(&ret, data[i]);
RECURSIVE PushRange(_, _, _, _)
PushRange(ret, data, i, hi) ==
    IF i < hi THEN PushRange(push_hex(ret, data[i + 1]), data, i + 1, hi)
    ELSE ret

Dash == 45

uuid_to_str(u) ==
    LET r1 == Append(PushRange(<<>>, u, 0, 4), Dash)
        r2 == Append(PushRange(r1, u, 4, 6), Dash)
        r3 == Append(PushRange(r2, u, 6, 8), Dash)
        r4 == Append(PushRange(r3, u, 8, 10), Dash)
    IN  PushRange(r4, u, 10, kStaticSize)

-----------------------------------------------------------------------------
(* Decoding *)

isdigit(ch) == 48 <= ch /\ ch <= 57

tolower(ch) == IF 65 <= ch /\ ch <= 90 THEN ch + 32 ELSE ch

\* Mutation of from_hexdigit: tolower left out.
from_hexdigit_nolower(ch) ==
    IF isdigit(ch) THEN [ok |-> TRUE, out |-> ch - 48]
    ELSE IF 97 <= ch /\ ch <= 102 THEN [ok |-> TRUE, out |-> 10 + (ch - 97)]
    ELSE [ok |-> FALSE, out |-> 0]

from_hexdigit(ch) ==
    IF isdigit(ch) THEN [ok |-> TRUE, out |-> ch - 48]
    ELSE LET lc == tolower(ch)
         IN  IF 97 <= lc /\ lc <= 102 THEN [ok |-> TRUE, out |-> 10 + (lc - 97)]
             ELSE [ok |-> FALSE, out |-> 0]

\* The positions i at which the switch first expects a '-'.
DashBefore == {4, 6, 8, 10}

\* str[j] on a const std::string: the character, or the NUL that
\* operator[] yields at j == size().
CharAt(s, j) == IF j < Len(s) THEN s[j + 1] ELSE 0

\* rassert(j < uuid_t::kStringSize) fails, or str[j] is read past the end.
OutOfBounds(s, j) == j >= kStringSize \/ j > Len(s)

Fail(data) == [ok |-> FALSE, crash |-> FALSE, data |-> data]

Crash(data) == [ok |-> FALSE, crash |-> TRUE, data |-> data]

\* The for/switch loop of str_to_uuid(str, uuid) from byte i and string
\* position j on; data is *uuid as written so far.
RECURSIVE DecodeLoop(_, _, _, _)
DecodeLoop(s, data, i, j) ==
    IF i >= kStaticSize
    THEN [ok |-> TRUE, crash |-> j # kStringSize, data |-> data]
    ELSE
      LET dash == i \in DashBefore
          j0   == IF dash THEN j + 1 ELSE j
      IN  IF dash /\ OutOfBounds(s, j) THEN Crash(data)
          ELSE IF dash /\ CharAt(s, j) # Dash THEN Fail(data)
          ELSE IF OutOfBounds(s, j0) THEN Crash(data)
          ELSE IF ~from_hexdigit(CharAt(s, j0)).ok THEN Fail(data)
          ELSE IF OutOfBounds(s, j0 + 1) THEN Crash(data)
          ELSE IF ~from_hexdigit(CharAt(s, j0 + 1)).ok THEN Fail(data)
          ELSE
            LET high == from_hexdigit(CharAt(s, j0)).out
                low  == from_hexdigit(CharAt(s, j0 + 1)).out
            IN  DecodeLoop(s, [data EXCEPT ![i + 1] = (high * 16 + low) % 256],
                           i + 1, j0 + 2)

\* Mutation of the bool decoder: the output restored on failure.
str_to_uuid2_restoring(s, data) ==
    IF Len(s) # kStaticSize * 2 + 4
    THEN Fail(data)
    ELSE LET r == DecodeLoop(s, data, 0, 0)
         IN  IF r.ok THEN r ELSE [r EXCEPT !.data = data]

\* MUST_USE bool str_to_uuid(const std::string &str, uuid_t *uuid)
str_to_uuid2(s, data) ==
    IF Len(s) # kStaticSize * 2 + 4
    THEN Fail(data)
    ELSE DecodeLoop(s, data, 0, 0)

\* Mutation of the throwing decoder: the bool result ignored.
str_to_uuid1_unchecked(s) ==
    LET r == str_to_uuid2(s, uuid_t)
    IN  [thrown |-> FALSE, crash |-> r.crash, val |-> r.data]

\* uuid_t str_to_uuid(const std::string &uuid): decodes into a local and
\* returns it, or throws std::runtime_error.
str_to_uuid1(s) ==
    LET r == str_to_uuid2(s, uuid_t)
    IN  IF r.ok THEN [thrown |-> FALSE, crash |-> r.crash, val |-> r.data]
        ELSE [thrown |-> TRUE, crash |-> r.crash, val |-> uuid_t]

\* bool is_uuid(const std::string &str): try { str_to_uuid(str); } catch (...)
is_uuid(s) ==
    LET r == str_to_uuid1(s)
    IN  [escaped |-> FALSE, crash |-> r.crash, val |-> ~r.thrown]

-----------------------------------------------------------------------------
(* The string codec as a state machine: Spec *)

MaxEdits == 2

all_ff == [i \in 1 .. kStaticSize |-> 255]

mixed_uuid ==
    <<1, 35, 69, 103, 137, 171, 205, 239, 16, 50, 84, 118, 152, 186, 220, 254>>

\* The identifiers given to uuid_to_str.
SampleIds == {nil_uuid, uuid_t, all_ff, mixed_uuid}

\* "not-a-uuid"
NotAUuid == <<110, 111, 116, 45, 97, 45, 117, 117, 105, 100>>

InitStrs == {<<>>, NotAUuid}

\* Characters written into the string: '-', and the neighbours of the
\* accepted ranges: '/' ':' (digits), '@' 'F' 'G' (A-F), '`' 'g' (a-f).
EditChars == {45, 47, 58, 64, 70, 71, 96, 103}

AppendChars == {45, 48}

\* What the caller's uuid_t holds when it is handed to the bool decoder.
OutInits == {uuid_t, nil_uuid}

\* 0-based positions edited: the first digit, a digit of the first group,
\* the first and third separators, the last digit.
EditPos == {0, 4, 8, 18, 35}

NoRes2 == [done |-> FALSE, ok |-> FALSE, crash |-> FALSE]
NoRes1 == [done |-> FALSE, thrown |-> FALSE, crash |-> FALSE, before |-> uuid_t]
NoResIs == [done |-> FALSE, val |-> FALSE, escaped |-> FALSE, crash |-> FALSE]
NoEnc == [done |-> FALSE, s |-> <<>>]
\* The threads that call generate_uuid.
Ctx == {1, 2}

\* Thread-local storage as the loader leaves it: statics are zeroed.
GenIdle ==
    /\ next_uuid_initialized = [c \in Ctx |-> FALSE]
    /\ next_uuid = [c \in Ctx |-> nil_uuid]
    /\ pc = [c \in Ctx |-> "idle"]
    /\ result = [c \in Ctx |-> uuid_t]
    /\ sha = <<>>
    /\ aborted = FALSE
    /\ calls = 0
    /\ reads = [c \in Ctx |-> 0]
    /\ seeded = [c \in Ctx |-> <<>>]
    /\ digested = [c \in Ctx |-> <<>>]
    /\ returned = [c \in Ctx |-> <<>>]

Init ==
    /\ id \in SampleIds
    /\ str \in InitStrs
    /\ fromEnc = FALSE
    /\ edits = 0
    /\ out = uuid_t
    /\ outBefore = uuid_t
    /\ res2 = NoRes2
    /\ res1 = NoRes1
    /\ parsed = uuid_t
    /\ resIs = NoResIs
    /\ enc = NoEnc
    /\ GenIdle

\* The string changes: the outcomes recorded for the old string are dropped
\* and the caller's variables are fresh ones.
NewStr(s, isEnc, n) ==
    /\ str' = s
    /\ fromEnc' = isEnc
    /\ edits' = n
    /\ out' = uuid_t
    /\ outBefore' = uuid_t
    /\ parsed' = uuid_t
    /\ res2' = NoRes2
    /\ res1' = NoRes1
    /\ resIs' = NoResIs
    /\ enc' = NoEnc
    /\ UNCHANGED <<id, genVars>>

\* str = uuid_to_str(id);
Encode ==
    /\ ~fromEnc
    /\ edits = 0
    /\ NewStr(uuid_to_str(id), TRUE, 0)

\* Input: one character of the string replaced.
EditReplace ==
    /\ edits < MaxEdits
    /\ \E p \in EditPos, c \in EditChars :
          /\ p < Len(str)
          /\ str[p + 1] # c
          /\ NewStr([str EXCEPT ![p + 1] = c], fromEnc, edits + 1)

\* Input: a character appended.
EditAppend ==
    /\ edits < MaxEdits
    /\ \E c \in AppendChars : NewStr(Append(str, c), fromEnc, edits + 1)

\* Input: the last character dropped.
EditDropLast ==
    /\ edits < MaxEdits
    /\ Len(str) > 0
    /\ NewStr(SubSeq(str, 1, Len(str) - 1), fromEnc, edits + 1)

\* ok = str_to_uuid(str, &out);  -- out holds d when the call starts
TryParse ==
    /\ ~res2.done
    /\ \E d \in OutInits :
          LET r == str_to_uuid2(str, d)
          IN  /\ res2' = [done |-> TRUE, ok |-> r.ok, crash |-> r.crash]
              /\ outBefore' = d
              /\ out' = r.data
    /\ enc' = NoEnc
    /\ UNCHANGED <<id, str, fromEnc, edits, res1, parsed, resIs, genVars>>

\* parsed = str_to_uuid(str);  -- no assignment happens when it throws
Parse ==
    /\ ~res1.done
    /\ LET r == str_to_uuid1(str)
       IN  /\ res1' = [done |-> TRUE, thrown |-> r.thrown, crash |-> r.crash,
                       before |-> parsed]
           /\ parsed' = IF r.thrown THEN parsed ELSE r.val
    /\ UNCHANGED <<id, str, fromEnc, edits, out, outBefore, res2, resIs, enc,
                   genVars>>

\* is_uuid(str)
IsUuid ==
    /\ ~resIs.done
    /\ LET r == is_uuid(str)
       IN  resIs' = [done |-> TRUE, val |-> r.val, escaped |-> r.escaped,
                     crash |-> r.crash]
    /\ UNCHANGED <<id, str, fromEnc, edits, out, outBefore, res2, res1, parsed,
                   enc, genVars>>

\* uuid_to_str(out), after a decode that returned true
Reencode ==
    /\ res2.done /\ res2.ok
    /\ ~enc.done
    /\ enc' = [done |-> TRUE, s |-> uuid_to_str(out)]
    /\ UNCHANGED <<id, str, fromEnc, edits, out, outBefore, res2, res1, parsed,
                   resIs, genVars>>

Next ==
    \/ Encode
    \/ EditReplace
    \/ EditAppend
    \/ EditDropLast
    \/ TryParse
    \/ Parse
    \/ IsUuid
    \/ Reencode

Spec == Init /\ [][Next]_vars

-----------------------------------------------------------------------------
(* Generation *)

\* The loop of get_and_increment_uuid from index i (1-based i is the
\* code's i - 1) down: next_uuid[i - 1] = next_uuid[i - 1] + 1 in uint8_t.
RECURSIVE IncLoop(_, _, _)
IncLoop(buf, i, carry) ==
    IF carry /\ i > 0
    THEN LET b == (buf[i] + 1) % 256
         IN  IncLoop([buf EXCEPT ![i] = b], i - 1, b = 0)
    ELSE buf

\* Mutations of get_and_increment_uuid: the carry dropped; no increment.
get_and_increment_nocarry(buf) ==
    [result |-> buf,
     next   |-> [buf EXCEPT ![kStaticSize] = (buf[kStaticSize] + 1) % 256]]

get_and_increment_stuck(buf) == [result |-> buf, next |-> buf]

\* uuid_t get_and_increment_uuid(): the copy returned, and next_uuid after.
get_and_increment_uuid(buf) ==
    [result |-> buf, next |-> IncLoop(buf, kStaticSize, TRUE)]

SHA_DIGEST_LENGTH == 20

\* Mutation of TagAndCopy: the version bits left as the digest has them.
TagAndCopy_untagged(output_buffer) == SubSeq(output_buffer, 1, kStaticSize)

\* The second half of hash_uuid: output_buffer[6] and [8] tagged, then the
\* first 16 of the 20 bytes copied into the uuid.
TagAndCopy(output_buffer) ==
    LET b6 == (output_buffer[7] % 16) + 64
        b8 == (output_buffer[9] % 64) + 128
    IN  SubSeq([output_buffer EXCEPT ![7] = b6, ![9] = b8], 1, kStaticSize)

\* SHA-1 is OpenSSL's, not this file's. The model knows of it only that it
\* is a function from 16 bytes to 20: the digest of a value not hashed
\* before is any member of DigestPool, and hashing it again gives the same.
digest_a == [i \in 1 .. SHA_DIGEST_LENGTH |-> (37 * i + 11) % 256]

\* digest_a with other bits where hash_uuid will write the version.
digest_b == [digest_a EXCEPT ![7] = 250, ![9] = 251]

\* A digest that already carries the version bits.
digest_c == [i \in 1 .. SHA_DIGEST_LENGTH |->
                IF i = 7 THEN 76 ELSE IF i = 9 THEN 157 ELSE (91 * i + 3) % 256]

DigestPool == {digest_a, digest_b, digest_c}

Hashed == DOMAIN sha

\* The 16 bytes a full read of /dev/urandom delivers.
seed_carry == [i \in 1 .. kStaticSize |-> IF i >= kStaticSize - 1 THEN 255 ELSE 7]

Seeds == {all_ff, seed_carry, mixed_uuid}

\* read() results short of 16: an error, nothing, some bytes.
ShortReads == {-1, 0, 5}

MaxCalls == 4

\* Mutation of SetThreadLocal: one static shared by all threads.
SetShared(f, c, v) == [d \in DOMAIN f |-> v]

\* A store to a `static __thread` variable by thread c.
SetThreadLocal(f, c, v) == [f EXCEPT ![c] = v]

\* Mutation of NeedsInit: the flag not consulted.
NeedsInit_always(c) == TRUE

\* if (!next_uuid_initialized)
NeedsInit(c) == ~next_uuid_initialized[c]

\* A thread enters generate_uuid.
CallGenerate(c) ==
    /\ ~aborted
    /\ pc[c] = "idle"
    /\ calls < MaxCalls
    /\ calls' = calls + 1
    /\ pc' = [pc EXCEPT ![c] = IF NeedsInit(c) THEN "init" ELSE "incr"]
    /\ UNCHANGED <<next_uuid_initialized, next_uuid, result, sha, aborted,
                   reads, seeded, digested, returned, codecVars>>

\* initialize_dev_random_uuid(), open() returning -1: guarantee aborts.
OpenFails(c) ==
    /\ ~aborted
    /\ pc[c] = "init"
    /\ aborted' = TRUE
    /\ UNCHANGED <<next_uuid_initialized, next_uuid, pc, result, sha, calls,
                   reads, seeded, digested, returned, codecVars>>

\* initialize_dev_random_uuid(), read() returning n < 16 after storing
\* max(n, 0) bytes into next_uuid: guarantee aborts.
ReadShort(c) ==
    /\ ~aborted
    /\ pc[c] = "init"
    /\ \E s \in Seeds, n \in ShortReads :
          LET got == IF n > 0 THEN n ELSE 0
          IN  /\ next_uuid' = SetThreadLocal(next_uuid, c,
                     [i \in 1 .. kStaticSize |->
                         IF i <= got THEN s[i] ELSE next_uuid[c][i]])
              /\ seeded' = [seeded EXCEPT ![c] = SubSeq(s, 1, got)]
    /\ reads' = [reads EXCEPT ![c] = @ + 1]
    /\ aborted' = TRUE
    /\ UNCHANGED <<next_uuid_initialized, pc, result, sha, calls, digested,
                   returned, codecVars>>

\* initialize_dev_random_uuid(), read() returning 16.
ReadFull(c) ==
    /\ ~aborted
    /\ pc[c] = "init"
    /\ \E s \in Seeds :
          /\ next_uuid' = SetThreadLocal(next_uuid, c, s)
          /\ seeded' = [seeded EXCEPT ![c] = s]
    /\ reads' = [reads EXCEPT ![c] = @ + 1]
    /\ pc' = [pc EXCEPT ![c] = "flag"]
    /\ UNCHANGED <<next_uuid_initialized, result, sha, aborted, calls,
                   digested, returned, codecVars>>

\* next_uuid_initialized = true;
SetInitialized(c) ==
    /\ ~aborted
    /\ pc[c] = "flag"
    /\ next_uuid_initialized' = SetThreadLocal(next_uuid_initialized, c, TRUE)
    /\ pc' = [pc EXCEPT ![c] = "incr"]
    /\ UNCHANGED <<next_uuid, result, sha, aborted, calls, reads, seeded,
                   digested, returned, codecVars>>

\* uuid_t result = get_and_increment_uuid();
GetAndIncrement(c) ==
    /\ ~aborted
    /\ pc[c] = "incr"
    /\ LET r == get_and_increment_uuid(next_uuid[c])
       IN  /\ result' = [result EXCEPT ![c] = r.result]
           /\ next_uuid' = SetThreadLocal(next_uuid, c, r.next)
    /\ pc' = [pc EXCEPT ![c] = "hash"]
    /\ UNCHANGED <<next_uuid_initialized, sha, aborted, calls, reads, seeded,
                   digested, returned, codecVars>>

\* hash_uuid(&result); return result;  -- SHA1_Init, SHA1_Update and
\* SHA1_Final return 1, so the three guarantees around them pass.
HashUuid(c) ==
    /\ ~aborted
    /\ pc[c] = "hash"
    /\ \E d \in DigestPool :
          /\ result[c] \in Hashed => d = sha[result[c]]
          /\ sha' = IF result[c] \in Hashed THEN sha ELSE sha @@ (result[c] :> d)
          /\ result' = [result EXCEPT ![c] = TagAndCopy(d)]
          /\ returned' = [returned EXCEPT ![c] = Append(@, TagAndCopy(d))]
    /\ digested' = [digested EXCEPT ![c] = Append(@, result[c])]
    /\ pc' = [pc EXCEPT ![c] = "idle"]
    /\ UNCHANGED <<next_uuid_initialized, next_uuid, aborted, calls, reads,
                   seeded, codecVars>>

CodecIdle ==
    /\ id = uuid_t
    /\ str = <<>>
    /\ fromEnc = FALSE
    /\ edits = 0
    /\ out = uuid_t
    /\ outBefore = uuid_t
    /\ res2 = NoRes2
    /\ res1 = NoRes1
    /\ parsed = uuid_t
    /\ resIs = NoResIs
    /\ enc = NoEnc

GenInit == CodecIdle /\ GenIdle

GenNext ==
    \E c \in Ctx :
        \/ CallGenerate(c)
        \/ OpenFails(c)
        \/ ReadShort(c)
        \/ ReadFull(c)
        \/ SetInitialized(c)
        \/ GetAndIncrement(c)
        \/ HashUuid(c)

GenSpec == GenInit /\ [][GenNext]_vars

-----------------------------------------------------------------------------
(* Properties of the string codec, stated without the code's operators *)

Digits == 48 .. 57
LowerHex == 97 .. 102
UpperHex == 65 .. 70
HexChars == Digits \cup LowerHex \cup UpperHex

\* 0-based positions of the separators in the 8-4-4-4-12 form.
DashPos == {8, 13, 18, 23}

WellFormed(s) ==
    /\ Len(s) = 36
    /\ \A k \in 0 .. 35 :
          IF k \in DashPos THEN s[k + 1] = 45 ELSE s[k + 1] \in HexChars

\* s with its hex letters A-F replaced by a-f.
Lower(s) == [k \in 1 .. Len(s) |-> IF s[k] \in UpperHex THEN s[k] + 32 ELSE s[k]]

Canonical(s) ==
    /\ Len(s) = 36
    /\ \A k \in 0 .. 35 :
          IF k \in DashPos THEN s[k + 1] = 45
          ELSE s[k + 1] \in Digits \cup LowerHex

\* 0-based position in the string of the first digit of byte k.
DigitPos(k) ==
    2 * k + (IF k >= 4 THEN 1 ELSE 0) + (IF k >= 6 THEN 1 ELSE 0)
          + (IF k >= 8 THEN 1 ELSE 0) + (IF k >= 10 THEN 1 ELSE 0)

HexVal(c) ==
    IF c \in Digits THEN c - 48 ELSE IF c \in LowerHex THEN c - 87 ELSE c - 55

ByteText(s, k) == 16 * HexVal(s[DigitPos(k) + 1]) + HexVal(s[DigitPos(k) + 2])

\* The text of byte k of a 36-character string is malformed: one of its two
\* digits is no hex digit, or the separator due right before it is missing.
BadByte(s, k) ==
    \/ s[DigitPos(k) + 1] \notin HexChars
    \/ s[DigitPos(k) + 2] \notin HexChars
    \/ (DigitPos(k) - 1) \in DashPos /\ s[DigitPos(k)] # 45

\* C1: round trip. Decoding the encoding of any identifier v succeeds and
\* yields v: the bool decoder returns true with out = v, and the throwing
\* decoder returns v without throwing.
C1_RoundTrip ==
    /\ (fromEnc /\ edits = 0 /\ res2.done) =>
           (res2.ok /\ ~res2.crash /\ out = id)
    /\ (fromEnc /\ edits = 0 /\ res1.done) =>
           (~res1.thrown /\ ~res1.crash /\ parsed = id)

\* The unset sentinel has been encoded and decoded by both decoders.
C1_Witness ==
    /\ fromEnc /\ edits = 0 /\ res2.done /\ res1.done
    /\ is_unset(id)
    /\ outBefore # id

\* C4: the bool decoder returns true exactly on the 36-character strings
\* with '-' at positions 8, 13, 18, 23 and hex digits 0-9a-fA-F elsewhere,
\* and returns false, without crashing, on every other string.
C4_AcceptsExactlyWellFormed ==
    res2.done => (~res2.crash /\ (res2.ok <=> WellFormed(str)))

\* A 36-character string whose only fault is the separator at position 4
\* instead of 8 has been rejected.
C4_Witness ==
    /\ res2.done /\ ~res2.ok
    /\ Len(str) = 36
    /\ str[5] = 45 /\ str[9] \in HexChars
    /\ \A k \in (0 .. 35) \ {4, 8} :
          IF k \in DashPos THEN str[k + 1] = 45 ELSE str[k + 1] \in HexChars

\* C5: for every accepted string s, uuid_to_str of the decoded identifier
\* is s with A-F replaced by a-f, which is 36 characters, lower case, with
\* hyphens at 8, 13, 18, 23; and a string that differs only in letter case
\* from the encoding of v decodes to v, like the encoding itself.
C5_LowercaseNormalised ==
    /\ (res2.done /\ res2.ok /\ enc.done) =>
           (enc.s = Lower(str) /\ Canonical(enc.s))
    /\ (res2.done /\ res2.ok /\ fromEnc /\ Lower(str) = Lower(uuid_to_str(id))) =>
           out = id

\* An accepted string with an upper-case letter has been re-encoded.
C5_Witness ==
    /\ res2.done /\ res2.ok /\ enc.done
    /\ \E k \in 1 .. Len(str) : str[k] \in UpperHex
    /\ fromEnc /\ Lower(str) = Lower(uuid_to_str(id))
    /\ outBefore # id

\* C6: the three decoders agree on every string: is_uuid is true exactly
\* when the bool decoder returns true, exactly when the throwing decoder
\* returns instead of throwing; no exception leaves is_uuid.
C6_DecodersAgree ==
    /\ (res2.done /\ res1.done) => (res2.ok <=> ~res1.thrown)
    /\ (res2.done /\ resIs.done) => (resIs.val <=> res2.ok)
    /\ (res1.done /\ resIs.done) => (resIs.val <=> ~res1.thrown)
    /\ resIs.done => ~resIs.escaped

\* All three have run on a rejected 36-character string.
C6_Witness ==
    /\ res2.done /\ res1.done /\ resIs.done
    /\ Len(str) = 36
    /\ ~resIs.val

\* C10: a failed bool decode leaves out unchanged when the length is not
\* 36; otherwise, failing at byte i (the first malformed one), it leaves
\* bytes 0..i-1 of out overwritten with the decoded prefix and bytes i..15
\* as they were. A throw of the other decoder leaves the caller's variable
\* as it was.
C10_FailedDecodeFrame ==
    /\ (res2.done /\ ~res2.ok /\ Len(str) # 36) => out = outBefore
    /\ (res2.done /\ ~res2.ok /\ Len(str) = 36) =>
           \E i \in 0 .. 15 :
              /\ BadByte(str, i)
              /\ \A k \in 0 .. 15 :
                    /\ k < i => (~BadByte(str, k) /\ out[k + 1] = ByteText(str, k))
                    /\ k >= i => out[k + 1] = outBefore[k + 1]
    /\ (res1.done /\ res1.thrown) => parsed = res1.before

\* A decode has failed at the last byte, after writing the fifteen before it.
C10_Witness ==
    /\ res2.done /\ ~res2.ok
    /\ Len(str) = 36
    /\ ~BadByte(str, 14) /\ BadByte(str, 15)
    /\ out # outBefore
    /\ \E k \in 1 .. 15 : out[k] # outBefore[k]

-----------------------------------------------------------------------------
(* Properties of generation, stated without the code's operators *)

\* b + 1 modulo 2^128, b read as a 16-digit number in base 256 with the
\* most significant digit first: the last digit below 255 goes up by one
\* and the digits after it, all 255, become 0.
Succ(b) ==
    LET low == {k \in 1 .. 16 : b[k] # 255}
    IN  IF low = {} THEN [k \in 1 .. 16 |-> 0]
        ELSE LET m == CHOOSE k \in low : \A j \in low : j <= k
             IN  [k \in 1 .. 16 |-> IF k < m THEN b[k]
                                     ELSE IF k = m THEN b[k] + 1 ELSE 0]

\* b + n modulo 2^128.
RECURSIVE SuccN(_, _)
SuccN(b, n) == IF n = 0 THEN b ELSE SuccN(Succ(b), n - 1)

\* Bit j (0 is the lowest) of byte x.
Bit(x, j) == (x \div (2 ^ j)) % 2

\* The 122 bits of 16 bytes that are not version bits: all of every byte but
\* the top four of byte 6 and the top two of byte 8.
FreeBits == {<<k, j>> \in (1 .. 16) \X (0 .. 7) :
                ~(k = 7 /\ j >= 4) /\ ~(k = 9 /\ j >= 6)}

SameFreeBits(u, d) == \A kj \in FreeBits : Bit(u[kj[1]], kj[2]) = Bit(d[kj[1]], kj[2])

\* The number of increments thread c has made.
Increments(c) == Len(digested[c]) + (IF pc[c] = "hash" THEN 1 ELSE 0)

C3_CounterArithmetic ==
    \A c \in Ctx :
        /\ \A k \in 1 .. Len(digested[c]) :
              digested[c][k] = SuccN(seeded[c], k - 1)
        /\ pc[c] = "hash" => result[c] = SuccN(seeded[c], Len(digested[c]))
        /\ next_uuid_initialized[c] =>
              next_uuid[c] = SuccN(seeded[c], Increments(c))

\* A thread seeded with sixteen 0xFF bytes has digested sixteen 0x00 bytes
\* in its second call and gone on.
C3_Witness ==
    \E c \in Ctx :
        /\ seeded[c] = all_ff
        /\ Len(digested[c]) >= 2
        /\ is_nil(digested[c][2])
        /\ next_uuid[c][kStaticSize] = 2
        /\ ~aborted

\* C7: every identifier returned has 0100 in the top nibble of byte 6 and
\* 10 in the top two bits of byte 8, and its other 122 bits are those of
\* the leading 16 bytes of the digest of the counter value before the
\* increment.
C7_VersionBits ==
    \A c \in Ctx : \A k \in 1 .. Len(returned[c]) :
        /\ Len(returned[c][k]) = 16
        /\ returned[c][k][7] \div 16 = 4
        /\ returned[c][k][9] \div 64 = 2
        /\ digested[c][k] = SuccN(seeded[c], k - 1)
        /\ SameFreeBits(returned[c][k], sha[digested[c][k]])

\* An identifier has been returned whose digest had other version bits.
C7_Witness ==
    \E c \in Ctx :
        /\ Len(returned[c]) >= 1
        /\ sha[digested[c][1]][7] \div 16 # 4
        /\ sha[digested[c][1]][9] \div 64 # 2

\* What a thread seeded with s returns in its k-th call when it runs alone.
Alone(s, k) ==
    LET d == sha[SuccN(s, k - 1)]
    IN  [i \in 1 .. 16 |-> IF i = 7 THEN 64 + (d[i] % 16)
                            ELSE IF i = 9 THEN 128 + (d[i] % 64) ELSE d[i]]

\* C8: a step of one thread leaves the counter and the flag of every other
\* thread as they were, and each thread returns, whatever the others do,
\* the identifiers it would return alone from its seed.
C8_Isolation ==
    /\ [](\A c \in Ctx : \A k \in 1 .. Len(returned[c]) :
              returned[c][k] = Alone(seeded[c], k))
    /\ [][\A c \in Ctx : pc'[c] # pc[c] =>
              \A d \in Ctx \ {c} :
                  /\ next_uuid'[d] = next_uuid[d]
                  /\ next_uuid_initialized'[d] = next_uuid_initialized[d]]_vars

\* Two threads with the same seed have both returned once, with the same
\* identifier, and are both inside their second call.
C8_Witness ==
    /\ \A c \in Ctx : Len(returned[c]) >= 1 /\ pc[c] = "hash"
    /\ seeded[1] = seeded[2]
    /\ returned[1][1] = returned[2][1]

\* C9: a thread reads the entropy source at most once, in its first call
\* and before it returns anything; the flag is set only after a full read
\* and never reset; with the flag set the counter changes only by + 1; and
\* when the source fails the process aborts inside that call, the flag
\* unset and nothing returned by it.
C9_SeededOnce ==
    /\ [](\A c \in Ctx :
              /\ reads[c] <= 1
              /\ next_uuid_initialized[c] =>
                    (reads[c] = 1 /\ Len(seeded[c]) = 16)
              /\ Len(returned[c]) > 0 => next_uuid_initialized[c])
    /\ [](aborted =>
              \E c \in Ctx : /\ pc[c] = "init"
                             /\ ~next_uuid_initialized[c]
                             /\ Len(seeded[c]) < 16
                             /\ returned[c] = <<>>)
    /\ [][\A c \in Ctx :
              /\ next_uuid_initialized[c] =>
                    /\ next_uuid_initialized'[c]
                    /\ reads'[c] = reads[c]
                    /\ next_uuid'[c] \in {next_uuid[c], Succ(next_uuid[c])}
              /\ (~next_uuid_initialized[c] /\ next_uuid_initialized'[c]) =>
                    (Len(seeded[c]) = 16 /\ next_uuid[c] = seeded[c])
              /\ reads'[c] # reads[c] => (returned[c] = <<>> /\ pc[c] = "init")
              /\ aborted => UNCHANGED vars]_vars

\* One thread has returned twice after its single read, and the process
\* has then aborted on the short read of the other.
C9_Witness ==
    /\ aborted
    /\ Len(returned[1]) >= 2 /\ reads[1] = 1
    /\ reads[2] = 1 /\ Len(seeded[2]) = 5

=============================================================================
